---- MODULE Spec2Model ----
(***************************************************************************)
(* trayer: a counter window (iced daemon) and a system-tray icon (ksni).   *)
(* Two execution contexts share one Mutex<Vec<TrayCommand>>:               *)
(*   - the tray context pushes a TrayCommand per menu/icon activation;     *)
(*   - the GUI loop pops one command per CheckTrayCommands tick and        *)
(*     dispatches it inside Example::update.                               *)
(* The windowing runtime (iced) is modelled at its interface: update       *)
(* returns Tasks (open, close, exit) which the runtime performs later and  *)
(* reports back through WindowOpened / WindowClosed messages.              *)
(* Spec is the program in which no code panics while it holds the guard,   *)
(* so that TRAY_COMMANDS.lock() always returns Ok; PoisonSpec adds the     *)
(* panic of the push; IconSpec runs the icon's pixel conversion on its own.*)
(***************************************************************************)
EXTENDS Integers, Sequences, FiniteSets

\* ---------------------------------------------------------------- bounds
\* Number of tray activations (send_command calls) explored.
MaxEnqueued == 2
\* |counter| explored (the i32 counter itself is unbounded for this purpose).
MaxCounter == 1
\* Pixels of the decoded icon explored.
MaxPixels == 2
\* Largest byte value explored in the decoded icon (a u8 goes up to 255).
MaxByte == 1

\* ------------------------------------------------------------- data model
ShowWindow == "ShowWindow"
HideWindow == "HideWindow"
Exit == "Exit"
TrayCommand == {ShowWindow, HideWindow, Exit}

\* Option::None of current_window_id (window ids start at 1).
NoWindowId == 0

\* Option::None of commands.pop(), also "no call in progress".
NoCommand == "None"

\* The tray activations: the three menu items and the icon's primary click.
ItemShowWindow == "Show Window"
ItemHideWindow == "Hide Window"
ItemExit == "Exit item"
ItemIcon == "icon"
NoItem == "no activation"

\* window::Id values: window::open allocates a fresh one per call; one for
\* the start-up window and at most one per drained ShowWindow.
WindowId == 1..(MaxEnqueued + 1)

WindowOpenedMsg(id) == [type |-> "WindowOpened", id |-> id]
WindowClosedMsg(id) == [type |-> "WindowClosed", id |-> id]

VARIABLES
    counter,            \* Example.counter
    current_window_id,  \* Example.current_window_id : Option<window::Id>
    window_is_open,     \* Example.window_is_open
    TRAY_COMMANDS,      \* the Vec<TrayCommand> inside the static Mutex
    lock,               \* owner of the Mutex: "free", "tray" or "gui"
    trayPc,             \* tray context: "idle", "lock" (in lock()), "push",
                        \* "dead" (only after a panic)
    trayCmd,            \* argument of the send_command call in progress
    guiPc,              \* GUI loop: "idle", "lock" (in lock()), "match"
    cmd,                \* result of commands.pop() in the tick in progress
    nextId,             \* next window::Id that window::open will allocate
    pendingOpen,        \* open tasks returned to the runtime, not yet run
    pendingClose,       \* close tasks returned to the runtime, not yet run
    exitRequested,      \* an iced::exit() task was returned to the runtime
    windows,            \* windows that exist on screen
    messages,           \* WindowOpened/WindowClosed messages not yet handled
    running,            \* the process is alive
    enqueued,           \* history: commands pushed, per TrayCommand
    drained,            \* history: commands popped, per TrayCommand
    applied,            \* history: commands dispatched by the match
    trayItem,           \* the tray activation whose callback is running
    poisoned,           \* the Mutex is poisoned (a holder panicked)
    decoded,            \* icon_pixmap: img.into_rgba8().into_vec()
    data,               \* icon_pixmap: the buffer handed to ksni::Icon
    passes              \* conversions applied to data so far

appState == <<counter, current_window_id, window_is_open>>
trayVars == <<trayPc, trayCmd, trayItem>>
iconVars == <<decoded, data, passes>>
taskVars == <<nextId, pendingOpen, pendingClose, exitRequested>>
worldVars == <<windows, messages, running>>
histVars == <<enqueued, drained, applied>>
vars == <<counter, current_window_id, window_is_open, TRAY_COMMANDS, lock,
          trayPc, trayCmd, guiPc, cmd, nextId, pendingOpen, pendingClose,
          exitRequested, windows, messages, running, enqueued, drained,
          applied, trayItem, poisoned, decoded, data, passes>>

\* ---------------------------------------------------------------- helpers
RECURSIVE Count(_, _)
Count(s, c) ==
    IF s = <<>> THEN 0
    ELSE (IF Head(s) = c THEN 1 ELSE 0) + Count(Tail(s), c)

Total(h) == h[ShowWindow] + h[HideWindow] + h[Exit]

Bump(h, c) == [h EXCEPT ![c] = @ + 1]

\* A push that replaces the Vec by the new command (older ones are lost).
push_overwrites(v, c) == <<c>>

\* Vec::push
push(v, c) == Append(v, c)

\* A drain from the front of the Vec (first-in-first-out).
pop_value_front(v) == IF Len(v) = 0 THEN NoCommand ELSE v[1]

\* Vec::pop: the removed element (NoCommand on an empty Vec) ...
pop_value(v) == IF Len(v) = 0 THEN NoCommand ELSE v[Len(v)]

\* A pop that leaves the element in the Vec (the command is drained again).
pop_rest_keeps(v) == v

\* A drain that empties the Vec (more than one command per tick).
pop_rest_clears(v) == <<>>

\* A drain that hands out the newest command and discards the oldest.
pop_rest_drops_oldest(v) == IF Len(v) = 0 THEN v ELSE Tail(v)

\* ... and the Vec that is left
pop_rest(v) == IF Len(v) = 0 THEN v ELSE SubSeq(v, 1, Len(v) - 1)

\* ------------------------------------------------------------------- Init
\* main spawns the tray thread; Example::new builds the state and returns
\* the open task of the start-up window.
Init ==
    /\ counter = 0
    /\ current_window_id = NoWindowId
    /\ window_is_open = FALSE
    /\ TRAY_COMMANDS = <<>>
    /\ lock = "free"
    /\ trayPc = "idle"
    /\ trayCmd = NoCommand
    /\ guiPc = "idle"
    /\ cmd = NoCommand
    /\ nextId = 2
    /\ pendingOpen = {1}
    /\ pendingClose = {}
    /\ exitRequested = FALSE
    /\ windows = {}
    /\ messages = <<>>
    /\ running = TRUE
    /\ enqueued = [c \in TrayCommand |-> 0]
    /\ drained = [c \in TrayCommand |-> 0]
    /\ applied = [c \in TrayCommand |-> 0]
    /\ trayItem = NoItem
    /\ poisoned = FALSE
    /\ decoded = <<>>
    /\ data = <<>>
    /\ passes = 0

\* ------------------------------------------------------------- the mutex
\* A lock() that hands out the guard of a poisoned mutex all the same.
LockOkAlways == TRUE

\* if let Ok(mut commands) = TRAY_COMMANDS.lock(): lock() returns Err, and
\* the body is skipped, exactly when the mutex is poisoned.
LockOk == ~poisoned

\* ----------------------------------------------------------- tray context
\* TRAY_COMMANDS.lock() succeeded in send_command: the tray context owns the
\* guard and is about to push.
SendCommandLocked ==
    /\ lock' = "tray"
    /\ trayPc' = "push"

\* A tray callback calls send_command(c), which starts with lock(): it gets
\* the guard at once when the mutex is free and waits for it otherwise.
send_command(c) ==
    /\ running
    /\ trayPc = "idle"
    /\ Total(enqueued) < MaxEnqueued
    /\ trayCmd' = c
    /\ IF lock = "free"
       THEN SendCommandLocked
       ELSE trayPc' = "lock" /\ UNCHANGED lock
    /\ UNCHANGED <<poisoned, iconVars,
                   appState, TRAY_COMMANDS, guiPc, cmd, taskVars, worldVars,
                   histVars>>

\* A Hide Window item wired to the wrong command.
MenuHideWindowSendsShow ==
    trayItem' = ItemHideWindow /\ send_command(ShowWindow)

\* The three menu items and the icon's primary click.
MenuShowWindow == trayItem' = ItemShowWindow /\ send_command(ShowWindow)
MenuHideWindow == trayItem' = ItemHideWindow /\ send_command(HideWindow)
MenuExit == trayItem' = ItemExit /\ send_command(Exit)
activate == trayItem' = ItemIcon /\ send_command(ShowWindow)

\* The waiting lock() returns once the GUI loop has dropped its guard.
SendCommandLock ==
    /\ running
    /\ trayPc = "lock"
    /\ lock = "free"
    /\ SendCommandLocked
    /\ UNCHANGED <<poisoned, iconVars, appState, TRAY_COMMANDS, trayCmd,
                   trayItem, guiPc, cmd, taskVars, worldVars, histVars>>

\* commands.push(cmd); the guard is dropped at the end of the if-let.
SendCommandPush ==
    /\ running
    /\ trayPc = "push"
    /\ TRAY_COMMANDS' = IF LockOk THEN push(TRAY_COMMANDS, trayCmd)
                        ELSE TRAY_COMMANDS
    /\ enqueued' = IF LockOk THEN Bump(enqueued, trayCmd) ELSE enqueued
    /\ lock' = "free"
    /\ trayPc' = "idle"
    /\ trayCmd' = NoCommand
    /\ trayItem' = NoItem
    /\ UNCHANGED <<poisoned, iconVars,
                   appState, guiPc, cmd, taskVars, worldVars, drained,
                   applied>>

\* commands.push(cmd) panics (Vec::push panics when the new capacity exceeds
\* isize::MAX bytes) with the guard held: nothing is pushed, the unwinding
\* drops the guard and marks the mutex poisoned.  The callback runs inside
\* the tray library, which is not part of the source: whether the tray
\* context takes further activations afterwards is left open.
PushPanics ==
    /\ running
    /\ trayPc = "push"
    /\ LockOk
    /\ poisoned' = TRUE
    /\ lock' = "free"
    /\ trayPc' \in {"idle", "dead"}
    /\ trayCmd' = NoCommand
    /\ trayItem' = NoItem
    /\ UNCHANGED <<iconVars, appState, TRAY_COMMANDS, guiPc, cmd, taskVars,
                   worldVars, histVars>>

\* ------------------------------------------------- GUI loop: Example::update
\* An open handler that sets the flag and forgets the identifier.
WindowOpenedNoId ==
    /\ running
    /\ guiPc = "idle"
    /\ messages # <<>>
    /\ Head(messages).type = "WindowOpened"
    /\ window_is_open' = TRUE
    /\ messages' = Tail(messages)
    /\ UNCHANGED <<poisoned, iconVars,
                   counter, current_window_id, TRAY_COMMANDS, lock, trayVars,
                   guiPc, cmd, taskVars, windows, running, histVars>>

WindowOpened ==
    /\ running
    /\ guiPc = "idle"
    /\ messages # <<>>
    /\ Head(messages).type = "WindowOpened"
    /\ current_window_id' = Head(messages).id
    /\ window_is_open' = TRUE
    /\ messages' = Tail(messages)
    /\ UNCHANGED <<poisoned, iconVars,
                   counter, TRAY_COMMANDS, lock, trayVars, guiPc, cmd,
                   taskVars, windows, running, histVars>>

\* A close handler that forgets to clear the identifier.
WindowClosedKeepsId ==
    /\ running
    /\ guiPc = "idle"
    /\ messages # <<>>
    /\ Head(messages).type = "WindowClosed"
    /\ window_is_open' = FALSE
    /\ messages' = Tail(messages)
    /\ UNCHANGED <<poisoned, iconVars,
                   counter, current_window_id, TRAY_COMMANDS, lock, trayVars,
                   guiPc, cmd, taskVars, windows, running, histVars>>

WindowClosed ==
    /\ running
    /\ guiPc = "idle"
    /\ messages # <<>>
    /\ Head(messages).type = "WindowClosed"
    /\ current_window_id' = NoWindowId
    /\ window_is_open' = FALSE
    /\ messages' = Tail(messages)
    /\ UNCHANGED <<poisoned, iconVars,
                   counter, TRAY_COMMANDS, lock, trayVars, guiPc, cmd,
                   taskVars, windows, running, histVars>>

\* A hide that does not wait for the close event: it clears the state itself.
HideToTrayClearsState ==
    /\ running
    /\ guiPc = "idle"
    /\ windows # {}
    /\ pendingClose' = IF current_window_id # NoWindowId
                       THEN pendingClose \cup {current_window_id}
                       ELSE pendingClose
    /\ current_window_id' = NoWindowId
    /\ window_is_open' = FALSE
    /\ UNCHANGED <<poisoned, iconVars,
                   counter, TRAY_COMMANDS, lock, trayVars, guiPc, cmd,
                   nextId, pendingOpen, exitRequested, worldVars, histVars>>

\* The buttons live in the window's view: they can be pressed only while a
\* window exists.
HideToTray ==
    /\ running
    /\ guiPc = "idle"
    /\ windows # {}
    /\ pendingClose' = IF current_window_id # NoWindowId
                       THEN pendingClose \cup {current_window_id}
                       ELSE pendingClose
    /\ UNCHANGED <<poisoned, iconVars,
                   appState, TRAY_COMMANDS, lock, trayVars, guiPc, cmd,
                   nextId, pendingOpen, exitRequested, worldVars, histVars>>

ExitApp ==
    /\ running
    /\ guiPc = "idle"
    /\ windows # {}
    /\ exitRequested' = TRUE
    /\ UNCHANGED <<poisoned, iconVars,
                   appState, TRAY_COMMANDS, lock, trayVars, guiPc, cmd,
                   nextId, pendingOpen, pendingClose, worldVars, histVars>>

Increment ==
    /\ running
    /\ guiPc = "idle"
    /\ windows # {}
    /\ counter < MaxCounter
    /\ counter' = counter + 1
    /\ UNCHANGED <<poisoned, iconVars,
                   current_window_id, window_is_open, TRAY_COMMANDS, lock,
                   trayVars, guiPc, cmd, taskVars, worldVars, histVars>>

Decrement ==
    /\ running
    /\ guiPc = "idle"
    /\ windows # {}
    /\ counter > -MaxCounter
    /\ counter' = counter - 1
    /\ UNCHANGED <<poisoned, iconVars,
                   current_window_id, window_is_open, TRAY_COMMANDS, lock,
                   trayVars, guiPc, cmd, taskVars, worldVars, histVars>>

\* TRAY_COMMANDS.lock() succeeded in update: the GUI loop owns the guard
\* and commands.pop() takes the last element of the Vec, if any.
CheckTrayCommandsLocked ==
    /\ lock' = "gui"
    /\ cmd' = IF LockOk THEN pop_value(TRAY_COMMANDS) ELSE NoCommand
    /\ TRAY_COMMANDS' = IF LockOk THEN pop_rest(TRAY_COMMANDS)
                        ELSE TRAY_COMMANDS
    /\ drained' = IF cmd' # NoCommand THEN Bump(drained, cmd') ELSE drained
    /\ guiPc' = "match"

\* The 500 ms timer delivers CheckTrayCommands and update calls lock(): it
\* gets the guard at once when the mutex is free and waits for it otherwise.
CheckTrayCommands ==
    /\ running
    /\ guiPc = "idle"
    /\ IF lock = "free"
       THEN CheckTrayCommandsLocked
       ELSE /\ guiPc' = "lock"
            /\ UNCHANGED <<lock, cmd, TRAY_COMMANDS, drained>>
    /\ UNCHANGED <<poisoned, iconVars,
                   appState, trayVars, taskVars, worldVars, enqueued,
                   applied>>

\* The waiting lock() returns once the tray context has dropped its guard.
CheckTrayCommandsLock ==
    /\ running
    /\ guiPc = "lock"
    /\ lock = "free"
    /\ CheckTrayCommandsLocked
    /\ UNCHANGED <<poisoned, iconVars,
                   appState, trayVars, taskVars, worldVars, enqueued,
                   applied>>

\* ShowWindow that opens a window whatever the state.
ShowWindowOpensAlways == cmd = ShowWindow

\* HideWindow that asks for a close whatever the state.
HideWindowClosesAlways == cmd = HideWindow

\* HideWindow that never asks for a close.
HideWindowClosesNever == FALSE

\* Exit that returns no exit task.
ExitExitsNever == FALSE

\* The tasks the match on the popped command returns.
ShowWindowOpens == cmd = ShowWindow /\ ~window_is_open
HideWindowCloses == cmd = HideWindow /\ current_window_id # NoWindowId
ExitExits == cmd = Exit

\* match cmd { ... }; every path out of the if-let drops the guard.
CheckTrayCommandsMatch ==
    /\ running
    /\ guiPc = "match"
    /\ pendingOpen' = IF ShowWindowOpens THEN pendingOpen \cup {nextId}
                      ELSE pendingOpen
    /\ nextId' = IF ShowWindowOpens THEN nextId + 1 ELSE nextId
    /\ pendingClose' = IF HideWindowCloses
                       THEN pendingClose \cup {current_window_id}
                       ELSE pendingClose
    /\ exitRequested' = (exitRequested \/ ExitExits)
    /\ applied' = IF cmd # NoCommand THEN Bump(applied, cmd) ELSE applied
    /\ lock' = "free"
    /\ cmd' = NoCommand
    /\ guiPc' = "idle"
    /\ UNCHANGED <<poisoned, iconVars,
                   appState, TRAY_COMMANDS, trayVars, worldVars, enqueued,
                   drained>>

\* ------------------------------------------ windowing runtime (GUI thread)
\* The runtime runs an open task: the window appears and its id is sent back.
RuntimeOpen ==
    /\ running
    /\ guiPc = "idle"
    /\ \E id \in pendingOpen :
        /\ pendingOpen' = pendingOpen \ {id}
        /\ windows' = windows \cup {id}
        /\ messages' = Append(messages, WindowOpenedMsg(id))
    /\ UNCHANGED <<poisoned, iconVars,
                   appState, TRAY_COMMANDS, lock, trayVars, guiPc, cmd,
                   nextId, pendingClose, exitRequested, running, histVars>>

\* The runtime runs a close task: an existing window disappears and
\* close_events reports it; closing a window that is gone does nothing.
RuntimeClose ==
    /\ running
    /\ guiPc = "idle"
    /\ \E id \in pendingClose :
        /\ pendingClose' = pendingClose \ {id}
        /\ windows' = windows \ {id}
        /\ messages' = IF id \in windows
                       THEN Append(messages, WindowClosedMsg(id))
                       ELSE messages
    /\ UNCHANGED <<poisoned, iconVars,
                   appState, TRAY_COMMANDS, lock, trayVars, guiPc, cmd,
                   nextId, pendingOpen, exitRequested, running, histVars>>

\* The user closes a window from its title bar.
UserClose ==
    /\ running
    /\ guiPc = "idle"
    /\ \E id \in windows :
        /\ windows' = windows \ {id}
        /\ messages' = Append(messages, WindowClosedMsg(id))
    /\ UNCHANGED <<poisoned, iconVars,
                   appState, TRAY_COMMANDS, lock, trayVars, guiPc, cmd,
                   taskVars, running, histVars>>

\* The runtime runs the exit task: daemon(...).run() returns, main returns,
\* the process (tray thread included) ends.
RuntimeExit ==
    /\ running
    /\ guiPc = "idle"
    /\ exitRequested
    /\ running' = FALSE
    /\ UNCHANGED <<poisoned, iconVars,
                   appState, TRAY_COMMANDS, lock, trayVars, guiPc, cmd,
                   taskVars, windows, messages, histVars>>

\* ------------------------------------------------------------------ specs
Next ==
    \/ MenuShowWindow
    \/ MenuHideWindow
    \/ MenuExit
    \/ activate
    \/ SendCommandLock
    \/ SendCommandPush
    \/ WindowOpened
    \/ WindowClosed
    \/ HideToTray
    \/ ExitApp
    \/ Increment
    \/ Decrement
    \/ CheckTrayCommands
    \/ CheckTrayCommandsLock
    \/ CheckTrayCommandsMatch
    \/ RuntimeOpen
    \/ RuntimeClose
    \/ UserClose
    \/ RuntimeExit

Spec == Init /\ [][Next]_vars

\* Scheduling: the 500 ms timer keeps firing and a thread that can take the
\* mutex or finish its critical section does so (weak fairness); the event
\* loop serves its sources in turn, so a task or message that is ready every
\* time the loop is idle is eventually served although ticks keep making
\* the loop busy in between (strong fairness). Tray clicks and the user's
\* actions in the window are under no obligation to happen.
Fairness ==
    /\ WF_vars(CheckTrayCommands)
    /\ WF_vars(CheckTrayCommandsLock)
    /\ WF_vars(CheckTrayCommandsMatch)
    /\ WF_vars(SendCommandLock)
    /\ WF_vars(SendCommandPush)
    /\ SF_vars(WindowOpened)
    /\ SF_vars(WindowClosed)
    /\ SF_vars(RuntimeOpen)
    /\ SF_vars(RuntimeClose)
    /\ SF_vars(RuntimeExit)

FairSpec == Spec /\ Fairness

\* The program driven from the tray alone: the user never touches the
\* window (no button, no title-bar close).  Every behaviour of it is a
\* behaviour of FairSpec, which puts no obligation on the user's actions.
TrayOnlyNext ==
    \/ MenuShowWindow
    \/ MenuHideWindow
    \/ MenuExit
    \/ activate
    \/ SendCommandLock
    \/ SendCommandPush
    \/ WindowOpened
    \/ WindowClosed
    \/ CheckTrayCommands
    \/ CheckTrayCommandsLock
    \/ CheckTrayCommandsMatch
    \/ RuntimeOpen
    \/ RuntimeClose
    \/ RuntimeExit

TrayOnlySpec == Init /\ [][TrayOnlyNext]_vars /\ Fairness

\* ------------------------------------------------------ icon_pixmap
\* Bytes of one RGBA pixel: the chunk size of data.chunks_exact_mut(4).
PixelBytes == 4

\* img.into_rgba8().into_vec(): four bytes per pixel.
RgbaBuffers ==
    UNION {[1..(PixelBytes * n) -> 0..MaxByte] : n \in 0..MaxPixels}

\* A rotation of the slice to the left by k.
rotate_left(s, k) ==
    [i \in 1..Len(s) |-> s[((i - 1 + k) % Len(s)) + 1]]

\* slice::rotate_right(k): the element at index i moves to (i + k) mod len.
rotate_right(s, k) ==
    [i \in 1..Len(s) |-> s[((i - 1 + Len(s) - (k % Len(s))) % Len(s)) + 1]]

\* The c-th chunk of chunks_exact_mut(n), c counted from 0.
chunk(d, n, c) == SubSeq(d, n * c + 1, n * c + n)

\* for pixel in data.chunks_exact_mut(4) { pixel.rotate_right(1) }: every
\* full chunk is rotated in place, a shorter remainder is not visited.
rgba_to_argb(d) ==
    [i \in 1..Len(d) |->
        IF (i - 1) \div PixelBytes < Len(d) \div PixelBytes
        THEN rotate_right(chunk(d, PixelBytes, (i - 1) \div PixelBytes),
                          1)[((i - 1) % PixelBytes) + 1]
        ELSE d[i]]

\* The initialiser of ICON runs the loop over the decoded buffer (the
\* assert_eq on the length passes); further passes apply it again.
IconConvert ==
    /\ passes < PixelBytes
    /\ Len(data) % PixelBytes = 0
    /\ data' = rgba_to_argb(data)
    /\ passes' = passes + 1
    /\ UNCHANGED <<decoded, poisoned, appState, TRAY_COMMANDS, lock,
                   trayVars, guiPc, cmd, taskVars, worldVars, histVars>>

\* The program at start-up with any decoded icon of up to MaxPixels pixels.
IconInit ==
    /\ counter = 0
    /\ current_window_id = NoWindowId
    /\ window_is_open = FALSE
    /\ TRAY_COMMANDS = <<>>
    /\ lock = "free"
    /\ trayPc = "idle"
    /\ trayCmd = NoCommand
    /\ guiPc = "idle"
    /\ cmd = NoCommand
    /\ nextId = 2
    /\ pendingOpen = {1}
    /\ pendingClose = {}
    /\ exitRequested = FALSE
    /\ windows = {}
    /\ messages = <<>>
    /\ running = TRUE
    /\ enqueued = [c \in TrayCommand |-> 0]
    /\ drained = [c \in TrayCommand |-> 0]
    /\ applied = [c \in TrayCommand |-> 0]
    /\ trayItem = NoItem
    /\ poisoned = FALSE
    /\ decoded \in RgbaBuffers
    /\ data = decoded
    /\ passes = 0

IconNext == IconConvert

IconSpec == IconInit /\ [][IconNext]_vars

\* The program with the one panic that can happen under the guard.
PoisonNext ==
    \/ Next
    \/ PushPanics

PoisonSpec == Init /\ [][PoisonNext]_vars

\* ----------------------------------------------------------------- steps
\* The step of a tick in which commands.pop() runs.
PopStep == guiPc # "match" /\ guiPc' = "match"
\* The step of a tick in which the popped command is matched.
MatchStep == guiPc = "match" /\ guiPc' = "idle"
\* The step of send_command in which commands.push(cmd) runs.
PushStep == trayPc = "push" /\ trayPc' = "idle"
\* The two states of the GUI state machine.
StateWindowOpen == window_is_open
StateNoWindow == current_window_id = NoWindowId
\* The update in progress issues no task.
NoTask == UNCHANGED taskVars

\* ---------------------------------------------------------------- claims
\* C1: no command is lost or duplicated: per command, the number drained
\* plus the number still in the queue equals the number enqueued, in every
\* interleaving of send_command and the pop of the tick.
C1_NoLossNoDup ==
    \A c \in TrayCommand :
        /\ drained[c] + Count(TRAY_COMMANDS, c) = enqueued[c]
        /\ drained[c] <= enqueued[c]

\* A drain is in progress (the tick holds the guard and has popped a
\* command) while the next enqueue waits for the mutex.
C1_Witness ==
    /\ guiPc = "match"
    /\ cmd # NoCommand
    /\ trayPc = "lock"
    /\ Total(drained) = 1
    /\ Total(enqueued) = 1

\* C2: push appends at the back; the pop returns and removes the last
\* element of the queue as it was just before the pop (last in, first out);
\* a pop on an empty queue returns nothing and leaves the queue empty.
C2_Lifo ==
    [][ /\ PushStep => TRAY_COMMANDS' = TRAY_COMMANDS \o <<trayCmd>>
        /\ PopStep =>
            IF TRAY_COMMANDS = <<>>
            THEN cmd' = NoCommand /\ TRAY_COMMANDS' = <<>>
            ELSE /\ cmd' = TRAY_COMMANDS[Len(TRAY_COMMANDS)]
                 /\ TRAY_COMMANDS' \o <<cmd'>> = TRAY_COMMANDS ]_vars

\* A HideWindow was popped from above an older ShowWindow.
C2_Witness ==
    /\ guiPc = "match"
    /\ cmd = HideWindow
    /\ TRAY_COMMANDS = <<ShowWindow>>

\* C4: a tick pops at most one command (the queue gets shorter by exactly
\* one when it is not empty), the pop and the match change nothing of the
\* Application State, and a tick that found the queue empty leaves the queue
\* as it is and issues no open, close or exit task.
C4_OnePerTick ==
    [][ /\ PopStep =>
            /\ Len(TRAY_COMMANDS') =
                   IF TRAY_COMMANDS = <<>> THEN 0 ELSE Len(TRAY_COMMANDS) - 1
            /\ Total(drained') - Total(drained) =
                   IF TRAY_COMMANDS = <<>> THEN 0 ELSE 1
            /\ UNCHANGED appState
            /\ NoTask
        /\ MatchStep =>
            /\ UNCHANGED <<TRAY_COMMANDS, drained>>
            /\ cmd = NoCommand => UNCHANGED appState /\ NoTask ]_vars

\* A tick popped one command from a queue of two.
C4_Witness ==
    /\ guiPc = "match"
    /\ cmd # NoCommand
    /\ Len(TRAY_COMMANDS) = 1
    /\ Total(drained) = 1

\* C5: window_is_open is true exactly when current_window_id is present.
C5_OpenIffId == window_is_open <=> current_window_id # NoWindowId

\* A window was closed and a later one opened: the flag and the identifier
\* were both rewritten.
C5_Witness ==
    /\ window_is_open
    /\ current_window_id = 2
    /\ 1 \notin windows

\* C6: a ShowWindow matched while window_is_open issues no task and leaves
\* the Application State (the window identifier included) unchanged.
C6_ShowWhileOpenNoop ==
    [][ MatchStep /\ cmd = ShowWindow /\ StateWindowOpen =>
            /\ NoTask
            /\ UNCHANGED appState
            /\ UNCHANGED <<windows, messages>> ]_vars

\* A ShowWindow was applied with the start-up window open, and no second
\* window identifier was ever allocated.
C6_Witness ==
    /\ applied[ShowWindow] >= 1
    /\ StateWindowOpen
    /\ current_window_id = 1
    /\ nextId = 2

\* C7: a HideWindow matched while current_window_id is absent issues no
\* task and leaves the Application State unchanged; the command stays
\* consumed (it is not put back in the queue).
C7_HideNoWindowNoop ==
    [][ MatchStep /\ cmd = HideWindow /\ StateNoWindow =>
            /\ NoTask
            /\ UNCHANGED appState
            /\ UNCHANGED <<TRAY_COMMANDS, drained>>
            /\ applied' = Bump(applied, HideWindow) ]_vars

\* A HideWindow was applied before any window identifier was stored, and
\* no close was requested.
C7_Witness ==
    /\ applied[HideWindow] >= 1
    /\ drained[HideWindow] = enqueued[HideWindow]
    /\ TRAY_COMMANDS = <<>>
    /\ StateNoWindow
    /\ pendingClose = {}
    /\ windows = {}
    /\ messages = <<>>
    /\ pendingOpen = {1}

\* Update handles the WindowClosed / WindowOpened message at the head.
ClosedStep ==
    /\ messages # <<>>
    /\ Head(messages).type = "WindowClosed"
    /\ messages' = Tail(messages)
OpenedStep ==
    /\ messages # <<>>
    /\ Head(messages).type = "WindowOpened"
    /\ messages' = Tail(messages)

\* C8: hide scenario. In WindowOpen with an empty queue a Hide Window click
\* leaves exactly <<HideWindow>> in the queue; the tick that pops it asks the
\* runtime to close the current window and does not change the state; the
\* WindowClosed message puts the state in NoWindow; and with fair ticks and
\* deliveries NoWindow is reached from the state after the click, unless the
\* process is told to exit first.
C8_HideScenario ==
    /\ [][ /\ PushStep /\ trayCmd = HideWindow /\ TRAY_COMMANDS = <<>> =>
                TRAY_COMMANDS' = <<HideWindow>> /\ UNCHANGED appState
           /\ PopStep /\ TRAY_COMMANDS = <<HideWindow>> =>
                cmd' = HideWindow /\ TRAY_COMMANDS' = <<>>
           /\ MatchStep /\ cmd = HideWindow /\ StateWindowOpen =>
                /\ current_window_id \in pendingClose'
                /\ UNCHANGED <<appState, nextId, pendingOpen, exitRequested>>
           /\ ClosedStep => StateNoWindow' /\ ~window_is_open' ]_vars
    /\ (StateWindowOpen /\ TRAY_COMMANDS = <<HideWindow>>)
           ~> ((StateNoWindow /\ ~window_is_open) \/ exitRequested)

\* The whole scenario ran: the only command ever enqueued was a HideWindow,
\* it was applied, the start-up window is gone and the state is NoWindow.
C8_Witness ==
    /\ enqueued = [c \in TrayCommand |-> IF c = HideWindow THEN 1 ELSE 0]
    /\ applied = enqueued
    /\ StateNoWindow
    /\ ~window_is_open
    /\ windows = {}
    /\ messages = <<>>
    /\ nextId = 2
    /\ ~exitRequested

\* C9: show scenario. In NoWindow a Show Window click (or the icon's click)
\* enqueues ShowWindow; the tick that pops it asks the runtime for a window
\* with a fresh identifier; the WindowOpened message stores that identifier
\* and sets window_is_open; and with fair ticks and deliveries WindowOpen is
\* reached from the state after the click, unless the process is told to
\* exit first.
C9_ShowScenario ==
    /\ [][ /\ PushStep /\ trayCmd = ShowWindow =>
                TRAY_COMMANDS' = TRAY_COMMANDS \o <<ShowWindow>>
           /\ MatchStep /\ cmd = ShowWindow /\ StateNoWindow =>
                /\ pendingOpen' = pendingOpen \cup {nextId}
                /\ nextId \notin pendingOpen \cup windows
                /\ nextId' = nextId + 1
                /\ UNCHANGED <<appState, pendingClose, exitRequested>>
           /\ OpenedStep =>
                /\ current_window_id' = Head(messages).id
                /\ window_is_open' ]_vars
    /\ (StateNoWindow /\ TRAY_COMMANDS = <<ShowWindow>>)
           ~> ((StateWindowOpen /\ current_window_id # NoWindowId)
               \/ exitRequested)

\* The whole scenario ran after the start-up window was closed: the only
\* command ever enqueued was a ShowWindow, it was applied, and the state is
\* WindowOpen with the identifier of the new window.
C9_Witness ==
    /\ enqueued = [c \in TrayCommand |-> IF c = ShowWindow THEN 1 ELSE 0]
    /\ applied = enqueued
    /\ StateWindowOpen
    /\ current_window_id = 2
    /\ windows = {2}
    /\ messages = <<>>
    /\ ~exitRequested

\* C10: exit is terminal. A matched Exit command, in either state, hands the
\* runtime an exit task; once an exit task was handed over (by the match or
\* by ExitApp) the process terminates; and a terminated process takes no
\* further step: no tick, no drain, no change of the Application State or of
\* the queue, even with commands left in it.
C10_ExitTerminal ==
    /\ [][ /\ MatchStep /\ cmd = Exit => exitRequested'
           /\ ~running => UNCHANGED vars
           /\ running /\ ~running' => exitRequested ]_vars
    /\ (guiPc = "match" /\ cmd = Exit) ~> ~running
    /\ exitRequested ~> ~running

\* The process ended on a drained Exit with an older command still queued.
C10_Witness ==
    /\ ~running
    /\ applied[Exit] = 1
    /\ TRAY_COMMANDS # <<>>

\* C3 as stated: no command is applied more often than it was enqueued, and
\* the n-th enqueue of every command is eventually followed by its n-th
\* application.
C3_AppliedExactlyOnce ==
    /\ [](\A c \in TrayCommand : applied[c] <= enqueued[c])
    /\ \A c \in TrayCommand : \A n \in 1..MaxEnqueued :
           (enqueued[c] >= n) ~> (applied[c] >= n)

\* C3 amended: no command is applied more often than it was drained, nor
\* drained more often than it was enqueued; and once the tray clicks have
\* stopped, with fair ticks either an exit is requested or every enqueued
\* command has been applied exactly once.
C3_AppliedAtMostOnce ==
    /\ [](\A c \in TrayCommand :
             applied[c] <= drained[c] /\ drained[c] <= enqueued[c])
    /\ <>[](exitRequested \/ applied = enqueued)

\* Two commands were enqueued and both were applied, the older one last.
C3_Witness ==
    /\ Total(enqueued) = MaxEnqueued
    /\ applied = enqueued
    /\ ~exitRequested

\* The command each tray activation stands for.
CommandOfItem(item) ==
    CASE item = ItemShowWindow -> ShowWindow
      [] item = ItemIcon -> ShowWindow
      [] item = ItemHideWindow -> HideWindow
      [] item = ItemExit -> Exit
      [] OTHER -> NoCommand

\* A step of the tray context.
TrayStep == trayPc' # trayPc

\* C11: a step of the tray context touches nothing but the callback's own
\* position, the mutex and the queue; its push appends exactly the command
\* of the activated item (Show Window and the icon click: ShowWindow, Hide
\* Window: HideWindow, Exit: Exit) and its other steps leave the queue
\* alone; and the Application State changes only in steps of the GUI loop.
C11_TrayOnlyEnqueues ==
    [][ /\ TrayStep =>
            UNCHANGED <<appState, taskVars, worldVars, guiPc, cmd, drained,
                        applied>>
        /\ PushStep =>
            TRAY_COMMANDS' = TRAY_COMMANDS \o <<CommandOfItem(trayItem)>>
        /\ TrayStep /\ ~PushStep => UNCHANGED TRAY_COMMANDS
        /\ appState' # appState =>
            guiPc = "idle" /\ UNCHANGED <<trayVars, TRAY_COMMANDS, lock>> ]_vars

\* Two activations (Hide Window, then the icon) were enqueued while the
\* window showed a counter of 1; the Application State is as the GUI left it.
C11_Witness ==
    /\ trayPc = "idle"
    /\ TRAY_COMMANDS = <<HideWindow, ShowWindow>>
    /\ window_is_open
    /\ current_window_id = 1
    /\ counter = 1

\* C12: with the mutex poisoned, a tray callback that holds its place in
\* send_command returns without changing the queue and stays ready for the
\* next activation, a tick drains nothing (the queue, the Application State
\* and the outstanding window and exit requests stay as they were) and its
\* dispatch requests nothing, and no step stops the process.
C12_PoisonedIsNoop ==
    [][ poisoned =>
          /\ (trayPc = "push" /\ TrayStep) =>
                /\ trayPc' = "idle"
                /\ UNCHANGED <<TRAY_COMMANDS, enqueued, appState>>
          /\ PopStep =>
                /\ cmd' = NoCommand
                /\ UNCHANGED <<TRAY_COMMANDS, drained, appState, taskVars>>
          /\ MatchStep =>
                /\ guiPc' = "idle"
                /\ UNCHANGED <<TRAY_COMMANDS, applied, appState, taskVars>>
          /\ (TrayStep \/ PopStep \/ MatchStep) => UNCHANGED running ]_vars

\* A tick has run on the poisoned mutex with a command still in the queue
\* and has drained nothing, while a tray callback is entering send_command.
C12_Witness ==
    /\ poisoned
    /\ guiPc = "match"
    /\ cmd = NoCommand
    /\ TRAY_COMMANDS # <<>>
    /\ trayPc = "lock"
    /\ running

\* C13: the GUI loop is never waiting for the mutex: a tick that finds the
\* guard in the hands of the tray context goes on without it.
C13_TickNeverBlocks == ~(guiPc = "lock" /\ lock = "tray")

\* C14 as stated: the first tick after an enqueue drains every command that
\* is in the queue, so the pop of a tick leaves the queue empty.
C14_DrainedByFirstTick == [][PopStep => TRAY_COMMANDS' = <<>>]_vars

\* C14: the first tick after an enqueue drains the command enqueued last and
\* its dispatch applies that command; the older commands stay in the queue,
\* in their order, one further tick each.
C14_NewestByFirstTick ==
    [][ /\ (PopStep /\ TRAY_COMMANDS # <<>>) =>
            /\ cmd' = TRAY_COMMANDS[Len(TRAY_COMMANDS)]
            /\ drained' = Bump(drained, cmd')
            /\ Len(TRAY_COMMANDS') = Len(TRAY_COMMANDS) - 1
            /\ \A i \in 1..Len(TRAY_COMMANDS') :
                  TRAY_COMMANDS'[i] = TRAY_COMMANDS[i]
        /\ (MatchStep /\ cmd # NoCommand) =>
            /\ applied' = Bump(applied, cmd)
            /\ UNCHANGED TRAY_COMMANDS ]_vars

\* Hide Window and then Show Window were clicked before a tick: the tick has
\* drained ShowWindow and HideWindow is left for the next one.
C14_Witness ==
    /\ guiPc = "match"
    /\ cmd = ShowWindow
    /\ TRAY_COMMANDS = <<HideWindow>>
    /\ Total(drained) = 1

\* C15: the converted buffer is as long as the decoded one and every pixel
\* [r, g, b, a] of it has become [a, r, g, b], whatever the other pixels
\* are; after four conversions the buffer is the decoded one again.
C15_RgbaToArgb ==
    /\ Len(data) = Len(decoded)
    /\ passes = 1 =>
        \A p \in 0..((Len(decoded) \div PixelBytes) - 1) :
            /\ data[PixelBytes * p + 1] = decoded[PixelBytes * p + 4]
            /\ data[PixelBytes * p + 2] = decoded[PixelBytes * p + 1]
            /\ data[PixelBytes * p + 3] = decoded[PixelBytes * p + 2]
            /\ data[PixelBytes * p + 4] = decoded[PixelBytes * p + 3]
    /\ passes = PixelBytes => data = decoded

\* A two-pixel icon whose pixels differ from their own rotations has been
\* converted once: both pixels have changed.
C15_Witness ==
    /\ passes = 1
    /\ Len(decoded) = 2 * PixelBytes
    /\ decoded[1] # decoded[4]
    /\ decoded[5] # decoded[6]
    /\ data[1] # decoded[1]
    /\ data[6] # decoded[6]

\* C16: a step that issues a close request (HideToTray, or the dispatch of
\* a drained HideWindow) asks for the close of the current window and for
\* nothing else and leaves the Application State as it is; the state leaves
\* WindowOpen for NoWindow only in the handling of a WindowClosed event and
\* enters WindowOpen only in the handling of a WindowOpened event.
C16_HideWaitsForEvent ==
    [][ /\ pendingClose' # pendingClose /\ pendingClose \subseteq pendingClose'
            => /\ UNCHANGED appState
               /\ StateWindowOpen
               /\ pendingClose' = pendingClose \cup {current_window_id}
               /\ UNCHANGED <<pendingOpen, exitRequested, windows, messages>>
        /\ (MatchStep /\ cmd = HideWindow) => UNCHANGED appState
        /\ (window_is_open /\ ~window_is_open') => ClosedStep
        /\ (~StateNoWindow /\ StateNoWindow') => ClosedStep
        /\ (~window_is_open /\ window_is_open') => OpenedStep
        /\ (current_window_id' # current_window_id /\ ~StateNoWindow')
            => OpenedStep ]_vars

\* The close of the open window has been requested and not yet performed:
\* the window is still there and the state is still WindowOpen.
C16_Witness ==
    /\ window_is_open
    /\ current_window_id \in pendingClose
    /\ current_window_id \in windows
    /\ messages = <<>>

\* C17: the GUI loop holds the guard for the pop alone: when the tick is
\* about to dispatch the drained command (to build the open, close or exit
\* request), the mutex is no longer in its hands.
C17_ReleasedBeforeDispatch ==
    (guiPc = "match" /\ cmd # NoCommand) => (lock # "gui")

\* C18: in every reachable state at most one window is open or requested:
\* the windows on screen and the open requests not yet performed number at
\* most one together.
C18_AtMostOneWindow == Cardinality(windows \cup pendingOpen) <= 1

\* No open or close is under way: no request waits for the runtime, no
\* event waits for update, and no tick is in progress.
NothingInFlight ==
    /\ messages = <<>>
    /\ pendingOpen = {}
    /\ pendingClose = {}
    /\ guiPc = "idle"

\* C19: whenever nothing is in flight, current_window_id is present exactly
\* when a window is on screen, and it is then the id of a window on screen.
C19_StateTracksWindows ==
    NothingInFlight =>
        /\ (current_window_id # NoWindowId) <=> (windows # {})
        /\ current_window_id # NoWindowId => current_window_id \in windows

\* C20: once a tick has drained a ShowWindow, the state is eventually
\* WindowOpen with the current window on screen, unless an exit is requested.
C20_ShowNeverLost ==
    (guiPc = "match" /\ cmd = ShowWindow)
        ~> \/ window_is_open /\ current_window_id \in windows
           \/ exitRequested
           \/ ~running

====
